---- MODULE Spec2Model ----
(***************************************************************************)
(* Model of GRET_OT_retarget_mesh.execute (src/mesh/retarget_mesh.py).     *)
(* One invocation of the operator is a run of the state machine: the scene *)
(* (objects, selection, operator properties, preferences) is fixed by Init *)
(* and the actions are the steps of execute in program order.  Coordinates *)
(* are one-dimensional integers and object transforms are the affine maps  *)
(* x |-> a*x + b with a in {1,-1}, a non-commutative group, so that the    *)
(* order of matrix products and inversions is observable.                  *)
(***************************************************************************)
EXTENDS Integers, Sequences, FiniteSets

VARIABLES objects, selected_objects, self, prefs,
          pc, result, reports, calls,
          mask, num_masked, stride, total, x_mirror,
          src_pts, dst_pts, weights, idx, pts

scene == <<objects, selected_objects, self, prefs>>
locals == <<mask, num_masked, stride, total, x_mirror, src_pts, dst_pts, weights, idx, pts>>
vars == <<objects, selected_objects, self, prefs, pc, result, reports, calls,
          mask, num_masked, stride, total, x_mirror, src_pts, dst_pts, weights, idx, pts>>

(* ---------------------------------------------------------------- bounds *)
MaxVerts == 3
FlowVerts == 1
MaxTargetVerts == 1
MaxSel == 3
MaxCap == 2

(* ------------------------------------------------------------ transforms *)
\* Matrix(): the identity transform.
Matrix == [a |-> 1, b |-> 0]

\* m @ n: apply n, then m.
MatMul(m, n) == [a |-> m.a * n.a, b |-> m.a * n.b + m.b]

\* m.inverted(), for a in {1,-1}.
Inverted(m) == [a |-> m.a, b |-> 0 - (m.a * m.b)]

\* m @ x for a coordinate x.
Apply(m, x) == m.a * x + m.b

(* --------------------------------------------------------------- helpers *)
\* math.ceil(n / d) for n >= 0, d >= 1.
ceil(n, d) == (n + d - 1) \div d

Indices(s) == [k \in 1..Len(s) |-> k]

\* sum(mask): the number of True entries.
RECURSIVE sum(_)
sum(bits) == IF bits = <<>> THEN 0
             ELSE (IF bits[1] THEN 1 ELSE 0) + sum(Tail(bits))

None == [none |-> TRUE, val |-> <<>>]
Some(v) == [none |-> FALSE, val |-> v]

NoPoints == [rows |-> <<>>, frame |-> Matrix]

Call(fn, obj, s, n) ==
    [fn |-> fn, obj |-> obj, stride |-> s, rows |-> n, key |-> <<>>,
     centres |-> NoPoints, points |-> NoPoints, kernel |-> "", radius |-> 0]
Report(level, msg) == [level |-> level, msg |-> msg]

(* ------------------------------------------------ execute: lines 88..93 *)
src_obj == "src"
dst_obj == IF self.use_shape_key THEN src_obj ELSE "dst"
dst_shape_key_name == self.use_shape_key

(* ----------------------------------------------- execute: lines 95..116 *)
num_vertices == Len(objects[src_obj].vertices)

vertex_cap == IF self.high_quality THEN prefs.retarget__max_vertices_high
              ELSE prefs.retarget__max_vertices_low

\* mask = [v.select for v in src_obj.data.vertices] if self.only_selection else None
SelectionMask == IF self.only_selection
                 THEN Some([i \in 1..num_vertices |-> objects[src_obj].vertices[i].select])
                 ELSE None

\* num_masked = sum(mask) if mask else num_vertices
NumMasked(m) == IF (~m.none) /\ m.val # <<>> THEN sum(m.val) ELSE num_vertices

\* stride = ceil(num_masked / vertex_cap)
StrideRoundedDown(n, cap) == IF n \div cap < 1 THEN 1 ELSE n \div cap
Stride(n, cap) == ceil(n, cap)

\* total={num_masked//stride}
LoggedTotal(n, s) == n \div s

(* --------------------------------------------------- rbf.get_mesh_points *)
\* every s-th element of seq, starting with the first (nothing for s < 1)
SampleEvery(seq, s) == IF s < 1 THEN <<>>
                       ELSE [k \in 1..ceil(Len(seq), s) |-> seq[(k - 1) * s + 1]]

get_mesh_points(obj, shape_key, m, matrix, s, xm) ==
    LET verts == objects[obj].vertices
        base == [i \in 1..Len(verts) |->
                    [v |-> i, x |-> IF shape_key THEN objects[obj].shape_key[i]
                                    ELSE verts[i].x]]
        eligible == IF m.none THEN base ELSE SelectSeq(base, LAMBDA r : m.val[r.v])
        sampled == SampleEvery(eligible, s)
        moved == [k \in 1..Len(sampled) |->
                    [v |-> sampled[k].v, x |-> Apply(matrix, sampled[k].x)]]
        acc == IF xm.none \/ xm.val # <<>> THEN xm
               ELSE Some(SelectSeq(Indices(moved), LAMBDA k : moved[k].x # 0))
        mirrored == IF acc.none THEN <<>>
                    ELSE [j \in 1..Len(acc.val) |->
                            [v |-> moved[acc.val[j]].v, x |-> 0 - moved[acc.val[j]].x]]
    IN [rows |-> moved \o mirrored,
        frame |-> MatMul(matrix, Inverted(objects[obj].matrix_world)),
        x_mirror |-> acc]

PointSet(r) == [rows |-> r.rows, frame |-> r.frame]

\* a get_mesh_points call with stride s on object o, and the point set r it returned
GetMeshPoints(o, s, r) ==
    [Call("get_mesh_points", o, s, Len(r.rows)) EXCEPT !.points = PointSet(r)]

(* ------------------------------------------------- execute: line 118 *)
\* rbf.rbf_kernels: kernel identifier -> (function, scale); the scales are
\* stand-ins for the multipliers of the kernel library
rbf_kernels ==
    [LINEAR |-> [fn |-> "linear", scale |-> 1],
     GAUSSIAN |-> [fn |-> "gaussian", scale |-> 2],
     PLATE |-> [fn |-> "thin_plate", scale |-> 3],
     BIHARMONIC |-> [fn |-> "multi_quadratic_biharmonic", scale |-> 2],
     INV_BIHARMONIC |-> [fn |-> "inv_multi_quadratic_biharmonic", scale |-> 2],
     C2 |-> [fn |-> "beckert_wendland_c2_basis", scale |-> 1]]

\* rbf_kernel, scale = rbf_kernels.get(self.function, (linear, 1.0))
rbf_kernel == IF self.function \in DOMAIN rbf_kernels
              THEN rbf_kernels[self.function].fn ELSE "linear"
scale == IF self.function \in DOMAIN rbf_kernels
         THEN rbf_kernels[self.function].scale ELSE 1

(* ---------------------------------------------- execute: lines 119..131 *)
\* x_mirror = [] if self.use_mirror_x else None
NewMirror == IF self.use_mirror_x THEN Some(<<>>) ELSE None

KeepMirror(xm) == xm

\* if not x_mirror: x_mirror = None
ResetMirror(xm) == IF xm.none \/ xm.val = <<>> THEN None ELSE xm

NotSwapped(s, d) == <<s, d>>

\* if self.invert: src_pts, dst_pts = dst_pts, src_pts
Swapped(s, d) == IF self.invert THEN <<d, s>> ELSE <<s, d>>

\* line 128: get_weight_matrix(src_pts, dst_pts, rbf_kernel, self.radius * scale)
GetWeightMatrix(s, d) ==
    [Call("get_weight_matrix", "-", 0, Len(s.rows)) EXCEPT
        !.centres = s, !.points = d, !.kernel = rbf_kernel, !.radius = self.radius * scale]

\* rbf.get_weight_matrix: a (N+4) x 3 matrix, or None when the system is singular
get_weight_matrix(s, d, solvable) == IF solvable THEN Some(Len(s.rows) + 4) ELSE None

(* ---------------------------------------------- execute: lines 133..161 *)
SkippedUnlessMesh(obj) == objects[obj].type # "MESH"

\* if obj.type != 'MESH' or obj == src_obj or obj == dst_obj: continue
Skipped(obj) == objects[obj].type # "MESH" \/ obj = src_obj \/ obj = dst_obj

dst_to_obj(obj) == IF self.use_object_transform
                   THEN MatMul(Inverted(objects[obj].matrix_world), objects[dst_obj].matrix_world)
                   ELSE Matrix

obj_to_dst(obj) == Inverted(dst_to_obj(obj))

\* line 148: get_distance_matrix(pts, src_pts, rbf_kernel, self.radius * scale)
GetDistanceMatrix(o, p, c) ==
    [Call("get_distance_matrix", o, 0, Len(p.rows)) EXCEPT
        !.centres = c, !.points = p, !.kernel = rbf_kernel, !.radius = self.radius * scale]

\* lines 153-157: None, or "Retarget_<dst_obj.name>[_<dst_shape_key_name>]"
shape_key_name == IF ~self.as_shape_key THEN <<>>
                  ELSE <<"Retarget", dst_obj>> \o
                       (IF self.use_shape_key THEN <<"destination">> ELSE <<>>)

\* line 158: set_mesh_points(obj, new_pts, matrix=dst_to_obj, shape_key_name=shape_key_name)
SetMeshPoints(o, n) ==
    [Call("set_mesh_points", o, 0, n) EXCEPT !.key = shape_key_name]

(* ------------------------------------------------------------------ Init *)
Objects == {"src", "dst", "t1", "t2", "lamp"}
Bool == {TRUE, FALSE}

Mesh(verts, key, world) ==
    [type |-> "MESH", vertices |-> verts, shape_key |-> key, matrix_world |-> world]
Lamp == [type |-> "LIGHT", vertices |-> <<>>, shape_key |-> <<>>, matrix_world |-> Matrix]

SeqsUpTo(S, n) == UNION {[1..k -> S] : k \in 0..n}
DistinctSeqs(S, n) == {s \in SeqsUpTo(S, n) :
                          s # <<>> /\ \A i, j \in 1..Len(s) : i # j => s[i] # s[j]}
Ones(n) == [i \in 1..n |-> 1]
Plain(n) == [i \in 1..n |-> [select |-> FALSE, x |-> 1]]

Flags(inv, uot, usk, sel, hq, mir, ask) ==
    [invert |-> inv, use_object_transform |-> uot, use_shape_key |-> usk,
     only_selection |-> sel, high_quality |-> hq, use_mirror_x |-> mir,
     as_shape_key |-> ask, function |-> "BIHARMONIC", radius |-> 1]

\* the operator's properties with another kernel and radius
WithKernel(f, fn, r) == [f EXCEPT !.function = fn, !.radius = r]

Caps(lo, hi) == [retarget__max_vertices_low |-> lo, retarget__max_vertices_high |-> hi]

Start(objs, sel, slf, prf) ==
    /\ objects = objs
    /\ selected_objects = sel
    /\ self = slf
    /\ prefs = prf
    /\ pc = "check"
    /\ result = "none"
    /\ reports = <<>>
    /\ calls = <<>>
    /\ mask = None
    /\ num_masked = 0
    /\ stride = 0
    /\ total = 0
    /\ x_mirror = None
    /\ src_pts = NoPoints
    /\ dst_pts = NoPoints
    /\ weights = None
    /\ idx = 1
    /\ pts = NoPoints

\* Scenes that vary the selection, the vertex counts and the early exits.
InitFlow ==
    \E sv \in SeqsUpTo([select : Bool, x : {1}], FlowVerts),
       dn \in 0..FlowVerts, n1 \in 0..MaxTargetVerts, n2 \in 0..MaxTargetVerts,
       sel \in DistinctSeqs(Objects, MaxSel), only \in Bool, usk \in Bool :
        Start([o \in Objects |->
                 CASE o = "src" -> Mesh(sv, Ones(Len(sv)), Matrix)
                   [] o = "dst" -> Mesh(Plain(dn), <<>>, Matrix)
                   [] o = "t1" -> Mesh(Plain(n1), <<>>, Matrix)
                   [] o = "t2" -> Mesh(Plain(n2), <<>>, Matrix)
                   [] OTHER -> Lamp],
              sel, Flags(FALSE, FALSE, usk, only, FALSE, FALSE, FALSE), Caps(1, 2))

\* Scenes that vary the source vertices, the mask, the caps and the mirror.
InitStride ==
    \E sv \in SeqsUpTo([select : Bool, x : {0, 1}], MaxVerts),
       lo \in 1..MaxCap, hi \in 1..MaxCap, only \in Bool, hq \in Bool, mir \in Bool :
        Start([o \in Objects |->
                 CASE o = "src" -> Mesh(sv, Ones(Len(sv)), Matrix)
                   [] o = "dst" -> Mesh(Plain(Len(sv)), <<>>, Matrix)
                   [] o = "t1" -> Mesh(<<>>, <<>>, Matrix)
                   [] o = "t2" -> Mesh(Plain(1), <<>>, Matrix)
                   [] OTHER -> Lamp],
              <<"lamp", "t1", "t2">>,
              Flags(FALSE, FALSE, FALSE, only, hq, mir, FALSE), Caps(lo, hi))

\* Scenes that vary the world transforms and the frame-related options.
Worlds == [a : {1, -1}, b : {0, 1}]
InitFrame ==
    \E ws \in Worlds, wd \in Worlds, wt \in Worlds,
       inv \in Bool, uot \in Bool, usk \in Bool, ask \in Bool :
        Start([o \in Objects |->
                 CASE o = "src" -> Mesh(Plain(1), Ones(1), ws)
                   [] o = "dst" -> Mesh(Plain(1), <<>>, wd)
                   [] o = "t1" -> Mesh(Plain(1), <<>>, wt)
                   [] o = "t2" -> Mesh(<<>>, <<>>, Matrix)
                   [] OTHER -> Lamp],
              <<"src", "t1", "dst">>,
              Flags(inv, uot, usk, FALSE, FALSE, FALSE, ask), Caps(1, 2))

\* Scenes that vary the kernel, the radius, the inversion and the mirror, with
\* a source and a destination that differ in their coordinates.
Kernels == {"LINEAR", "GAUSSIAN", "PLATE", "BIHARMONIC", "INV_BIHARMONIC", "C2"}
InitKernel ==
    \E fn \in Kernels, r \in {0, 1, 2}, inv \in Bool, mir \in Bool, usk \in Bool :
        Start([o \in Objects |->
                 CASE o = "src" -> Mesh(<<[select |-> FALSE, x |-> 0],
                                         [select |-> FALSE, x |-> 1]>>, <<1, 0>>, Matrix)
                   [] o = "dst" -> Mesh(Plain(2), <<>>, Matrix)
                   [] o = "t1" -> Mesh(Plain(1), <<>>, Matrix)
                   [] o = "t2" -> Mesh(Plain(2), <<>>, Matrix)
                   [] OTHER -> Lamp],
              <<"t1", "src", "t2">>,
              WithKernel(Flags(inv, FALSE, usk, FALSE, FALSE, mir, FALSE), fn, r), Caps(2, 2))

Init == InitFlow \/ InitStride \/ InitFrame \/ InitKernel

(* --------------------------------------------------------------- actions *)
Return(r) == pc' = "done" /\ result' = r

\* lines 95-98
EmptySource ==
    /\ pc = "check"
    /\ num_vertices = 0
    /\ reports' = Append(reports, Report("ERROR", "Source mesh has no vertices."))
    /\ Return("CANCELLED")
    /\ UNCHANGED <<scene, calls, locals>>

PointCountMismatchUnguarded ==
    /\ pc = "check"
    /\ num_vertices # Len(objects[dst_obj].vertices)
    /\ reports' = Append(reports,
          Report("ERROR", "Source and destination meshes must have equal number of vertices."))
    /\ Return("CANCELLED")
    /\ UNCHANGED <<scene, calls, locals>>

\* lines 99-101
PointCountMismatch ==
    /\ pc = "check"
    /\ num_vertices # 0
    /\ num_vertices # Len(objects[dst_obj].vertices)
    /\ reports' = Append(reports,
          Report("ERROR", "Source and destination meshes must have equal number of vertices."))
    /\ Return("CANCELLED")
    /\ UNCHANGED <<scene, calls, locals>>

\* lines 95-101, neither check fires
VerticesOk ==
    /\ pc = "check"
    /\ num_vertices # 0
    /\ num_vertices = Len(objects[dst_obj].vertices)
    /\ pc' = "stride"
    /\ UNCHANGED <<scene, result, reports, calls, locals>>

\* lines 106-112
AssignStride ==
    /\ mask' = SelectionMask
    /\ num_masked' = NumMasked(SelectionMask)
    /\ stride' = Stride(NumMasked(SelectionMask), vertex_cap)

EmptySelectionIgnored ==
    /\ pc = "stride"
    /\ AssignStride
    /\ NumMasked(SelectionMask) = 0
    /\ total' = 0
    /\ pc' = "sample_src"
    /\ UNCHANGED <<scene, result, reports, calls, x_mirror, src_pts, dst_pts, weights, idx, pts>>

\* lines 106-115
EmptySelection ==
    /\ pc = "stride"
    /\ AssignStride
    /\ NumMasked(SelectionMask) = 0
    /\ reports' = Append(reports, Report("ERROR", "Source mesh has no vertices selected."))
    /\ Return("CANCELLED")
    /\ UNCHANGED <<scene, calls, total, x_mirror, src_pts, dst_pts, weights, idx, pts>>

\* lines 106-116
ComputeStride ==
    /\ pc = "stride"
    /\ AssignStride
    /\ NumMasked(SelectionMask) # 0
    /\ total' = LoggedTotal(NumMasked(SelectionMask), Stride(NumMasked(SelectionMask), vertex_cap))
    /\ pc' = "sample_src"
    /\ UNCHANGED <<scene, result, reports, calls, x_mirror, src_pts, dst_pts, weights, idx, pts>>

\* lines 118-123
SampleSource ==
    /\ pc = "sample_src"
    /\ LET r == get_mesh_points(src_obj, FALSE, mask, Matrix, stride, NewMirror)
       IN /\ src_pts' = PointSet(r)
          /\ x_mirror' = ResetMirror(r.x_mirror)
          /\ calls' = Append(calls, GetMeshPoints(src_obj, stride, r))
    /\ pc' = "sample_dst"
    /\ UNCHANGED <<scene, result, reports, mask, num_masked, stride, total,
                   dst_pts, weights, idx, pts>>

\* lines 124-125
SampleDestination ==
    /\ pc = "sample_dst"
    /\ LET r == get_mesh_points(dst_obj, dst_shape_key_name, mask, Matrix, stride, x_mirror)
       IN /\ dst_pts' = PointSet(r)
          /\ x_mirror' = r.x_mirror
          /\ calls' = Append(calls, GetMeshPoints(dst_obj, stride, r))
    /\ pc' = "solve"
    /\ UNCHANGED <<scene, result, reports, mask, num_masked, stride, total,
                   src_pts, weights, idx, pts>>

\* lines 126-128
Solve(solvable) ==
    /\ src_pts' = Swapped(src_pts, dst_pts)[1]
    /\ dst_pts' = Swapped(src_pts, dst_pts)[2]
    /\ weights' = get_weight_matrix(Swapped(src_pts, dst_pts)[1],
                                    Swapped(src_pts, dst_pts)[2], solvable)
    /\ calls' = Append(calls, GetWeightMatrix(Swapped(src_pts, dst_pts)[1],
                                              Swapped(src_pts, dst_pts)[2]))

\* lines 126-131, the solve fails
SolveFails ==
    /\ pc = "solve"
    /\ Solve(FALSE)
    /\ reports' = Append(reports,
          Report("ERROR", "Failed to retarget. Try a different function or radius."))
    /\ Return("CANCELLED")
    /\ UNCHANGED <<scene, mask, num_masked, stride, total, x_mirror, idx, pts>>

\* lines 126-129, the solve succeeds
SolveSucceeds ==
    /\ pc = "solve"
    /\ Solve(TRUE)
    /\ pc' = "loop"
    /\ UNCHANGED <<scene, result, reports, mask, num_masked, stride, total, x_mirror, idx, pts>>

InLoop == pc = "loop" /\ idx <= Len(selected_objects)
obj == selected_objects[idx]

\* lines 133-135
LoopSkip ==
    /\ InLoop
    /\ Skipped(obj)
    /\ idx' = idx + 1
    /\ UNCHANGED <<scene, pc, result, reports, calls, mask, num_masked, stride, total,
                   x_mirror, src_pts, dst_pts, weights, pts>>

\* lines 137-143
SampleTarget == get_mesh_points(obj, FALSE, None, obj_to_dst(obj), 1, None)

LoopEmptyAborts ==
    /\ InLoop
    /\ ~Skipped(obj)
    /\ Len(SampleTarget.rows) = 0
    /\ pts' = PointSet(SampleTarget)
    /\ calls' = Append(calls, GetMeshPoints(obj, 1, SampleTarget))
    /\ reports' = Append(reports, Report("ERROR", "Mesh has no vertices."))
    /\ Return("CANCELLED")
    /\ UNCHANGED <<scene, mask, num_masked, stride, total,
                   x_mirror, src_pts, dst_pts, weights, idx>>

LoopEmptyBreaks ==
    /\ InLoop
    /\ ~Skipped(obj)
    /\ Len(SampleTarget.rows) = 0
    /\ pts' = PointSet(SampleTarget)
    /\ calls' = Append(calls, GetMeshPoints(obj, 1, SampleTarget))
    /\ idx' = Len(selected_objects) + 1
    /\ UNCHANGED <<scene, pc, result, reports, mask, num_masked, stride, total,
                   x_mirror, src_pts, dst_pts, weights>>

\* lines 133-146, the target has no points
LoopEmpty ==
    /\ InLoop
    /\ ~Skipped(obj)
    /\ Len(SampleTarget.rows) = 0
    /\ pts' = PointSet(SampleTarget)
    /\ calls' = Append(calls, GetMeshPoints(obj, 1, SampleTarget))
    /\ idx' = idx + 1
    /\ UNCHANGED <<scene, pc, result, reports, mask, num_masked, stride, total,
                   x_mirror, src_pts, dst_pts, weights>>

LoopRetargetResolves ==
    /\ InLoop
    /\ ~Skipped(obj)
    /\ Len(SampleTarget.rows) # 0
    /\ pts' = PointSet(SampleTarget)
    /\ calls' = calls \o
          << GetMeshPoints(obj, 1, SampleTarget),
             GetWeightMatrix(src_pts, dst_pts),
             GetDistanceMatrix(obj, PointSet(SampleTarget), src_pts),
             SetMeshPoints(obj, Len(SampleTarget.rows)),
             Call("update", obj, 0, 0) >>
    /\ idx' = idx + 1
    /\ UNCHANGED <<scene, pc, result, reports, mask, num_masked, stride, total,
                   x_mirror, src_pts, dst_pts, weights>>

\* lines 133-159, the target is evaluated and written
LoopRetarget ==
    /\ InLoop
    /\ ~Skipped(obj)
    /\ Len(SampleTarget.rows) # 0
    /\ pts' = PointSet(SampleTarget)
    /\ calls' = calls \o
          << GetMeshPoints(obj, 1, SampleTarget),
             GetDistanceMatrix(obj, PointSet(SampleTarget), src_pts),
             SetMeshPoints(obj, Len(SampleTarget.rows)),
             Call("update", obj, 0, 0) >>
    /\ idx' = idx + 1
    /\ UNCHANGED <<scene, pc, result, reports, mask, num_masked, stride, total,
                   x_mirror, src_pts, dst_pts, weights>>

\* line 161
Finish ==
    /\ pc = "loop"
    /\ idx > Len(selected_objects)
    /\ Return("FINISHED")
    /\ UNCHANGED <<scene, reports, calls, locals>>

Next ==
    \/ EmptySource
    \/ PointCountMismatch
    \/ VerticesOk
    \/ EmptySelection
    \/ ComputeStride
    \/ SampleSource
    \/ SampleDestination
    \/ SolveFails
    \/ SolveSucceeds
    \/ LoopSkip
    \/ LoopEmpty
    \/ LoopRetarget
    \/ Finish

Spec == Init /\ [][Next]_vars


(* ---------------------------------------------------------------- claims *)
CallsOf(fn) == {i \in 1..Len(calls) : calls[i].fn = fn}
CallsOn(fn, o) == {i \in CallsOf(fn) : calls[i].obj = o}
Reported(msg) == \E i \in 1..Len(reports) : reports[i].msg = msg
Targets == {k \in 1..Len(selected_objects) : ~Skipped(selected_objects[k])}
NumPoints(o) == Len(objects[o].vertices)
NoneSelected == \A i \in 1..num_vertices : ~objects[src_obj].vertices[i].select
VerticesValid == num_vertices # 0 /\ num_vertices = Len(objects[dst_obj].vertices)

\* C1: an invocation that ends with CANCELLED has made no set_mesh_points
\* (and no data.update) call on any object.
C1_CancelledWritesNothing ==
    result = "CANCELLED" => CallsOf("set_mesh_points") = {} /\ CallsOf("update") = {}

\* C1 witness: the solve failed with a non-empty target selected, and nothing was written.
C1_Witness ==
    /\ result = "CANCELLED"
    /\ CallsOf("get_weight_matrix") # {}
    /\ \E k \in Targets : NumPoints(selected_objects[k]) > 0

\* C2 (as claimed): every failure is reported; a cancelled invocation has an
\* error report, and every target that yielded zero points in the loop has a
\* warning reported for it.
C2_EmptyTargetWarned ==
    /\ result = "CANCELLED" => \E i \in 1..Len(reports) : reports[i].level = "ERROR"
    /\ \A i \in CallsOf("get_mesh_points") :
          (calls[i].obj \notin {src_obj, dst_obj} /\ calls[i].rows = 0)
             => \E j \in 1..Len(reports) : reports[j].level = "WARNING"

\* C3: get_weight_matrix is called at most once, before every
\* get_distance_matrix and set_mesh_points call, and no call at all follows a
\* failed solve.
C3_SingleSolve ==
    /\ Cardinality(CallsOf("get_weight_matrix")) <= 1
    /\ \A i \in CallsOf("get_weight_matrix") :
          /\ \A j \in CallsOf("get_distance_matrix") \cup CallsOf("set_mesh_points") : i < j
          /\ weights.none => i = Len(calls)
    /\ (CallsOf("get_distance_matrix") \cup CallsOf("set_mesh_points")) # {}
          => CallsOf("get_weight_matrix") # {}

\* C3 witness: two targets were evaluated and written after the one solve.
C3_Witness ==
    /\ result = "FINISHED"
    /\ Cardinality(CallsOf("set_mesh_points")) >= 2
    /\ Cardinality(CallsOf("get_weight_matrix")) = 1

\* C4: once the solve has succeeded the invocation is never cancelled, and
\* when it has returned, every selected target with at least one point has
\* been evaluated and written exactly once and every target without points
\* not at all, wherever the empty targets stand in the selection.
C4_EmptyTargetSkipped ==
    (~weights.none) =>
        /\ result # "CANCELLED"
        /\ pc = "done" =>
              /\ result = "FINISHED"
              /\ \A k \in Targets :
                    LET o == selected_objects[k]
                        n == IF NumPoints(o) > 0 THEN 1 ELSE 0
                    IN /\ Cardinality(CallsOn("get_distance_matrix", o)) = n
                       /\ Cardinality(CallsOn("set_mesh_points", o)) = n
                       /\ Cardinality(CallsOn("update", o)) = n

\* C4 witness: an empty target stands before a non-empty one, which was written.
C4_Witness ==
    /\ result = "FINISHED"
    /\ \E i, j \in Targets :
          /\ i < j
          /\ NumPoints(selected_objects[i]) = 0
          /\ NumPoints(selected_objects[j]) > 0
          /\ CallsOn("set_mesh_points", selected_objects[j]) # {}

\* C5: sampling and solving are reached only with a non-empty source whose
\* vertex count equals the destination's; an empty source ends in CANCELLED
\* with the empty-source error only (also when the counts differ as well), a
\* count difference in CANCELLED with the mismatch error only, both before
\* any get_mesh_points or get_weight_matrix call.
C5_VertexChecks ==
    /\ (calls # <<>> \/ pc \notin {"check", "done"}) => VerticesValid
    /\ (pc = "done" /\ num_vertices = 0) =>
          /\ result = "CANCELLED"
          /\ calls = <<>>
          /\ reports = <<Report("ERROR", "Source mesh has no vertices.")>>
    /\ (pc = "done" /\ num_vertices # 0
           /\ num_vertices # Len(objects[dst_obj].vertices)) =>
          /\ result = "CANCELLED"
          /\ calls = <<>>
          /\ reports = <<Report("ERROR",
                "Source and destination meshes must have equal number of vertices.")>>

\* C5 witness: the source is empty and the destination is not, and the
\* invocation has returned.
C5_Witness ==
    /\ pc = "done"
    /\ num_vertices = 0
    /\ Len(objects[dst_obj].vertices) # 0

\* C6: with only_selection set and no source vertex selected (the vertex
\* counts being valid) the invocation ends in CANCELLED with the
\* empty-selection error and without any sampling; and every
\* get_mesh_points call for the correspondence pair has a stride >= 1.
C6_EmptySelection ==
    /\ (pc = "done" /\ VerticesValid /\ self.only_selection /\ NoneSelected) =>
          /\ result = "CANCELLED"
          /\ calls = <<>>
          /\ reports = <<Report("ERROR", "Source mesh has no vertices selected.")>>
    /\ \A i \in CallsOf("get_mesh_points") :
          calls[i].obj \in {src_obj, dst_obj} => calls[i].stride >= 1

\* C6 witness: the stride 0 was computed for an all-false mask and the
\* invocation was cancelled.
C6_Witness ==
    /\ pc = "done"
    /\ VerticesValid /\ self.only_selection /\ NoneSelected
    /\ stride = 0
    /\ Reported("Source mesh has no vertices selected.")

\* C7 (as claimed): the src_pts passed to get_weight_matrix has at most
\* vertex_cap rows, with the X-axis mirror disabled or enabled.
C7_RowsWithinCap ==
    \A i \in CallsOf("get_weight_matrix") : calls[i].rows <= vertex_cap

\* C7 (amended): the src_pts passed to get_weight_matrix has at most
\* vertex_cap rows with the X-axis mirror disabled and at most 2 * vertex_cap
\* rows with it enabled.
C7_RowsWithinMirroredCap ==
    \A i \in CallsOf("get_weight_matrix") :
        /\ calls[i].rows >= 1
        /\ calls[i].rows <= (IF self.use_mirror_x THEN 2 * vertex_cap ELSE vertex_cap)

\* C7 witness: with a stride above 1 and the mirror enabled the solver got
\* more rows than the cap.
C7_Witness ==
    /\ self.use_mirror_x
    /\ stride > 1
    /\ \E i \in CallsOf("get_weight_matrix") :
          calls[i].rows > vertex_cap /\ calls[i].rows <= 2 * vertex_cap

\* C8 (as claimed): for the stride s = ceil(E / cap) the sampled count
\* (without mirroring) is ceil(E / s), at least 1, no larger than for a
\* smaller stride, and it is the total that execute logs.
C8_LoggedTotalIsSampledCount ==
    pc \in {"sample_dst", "solve", "loop"} /\ ~self.use_mirror_x =>
        /\ Len(src_pts.rows) = ceil(num_masked, stride)
        /\ Len(src_pts.rows) >= 1
        /\ \A s \in 1..stride : ceil(num_masked, s) >= ceil(num_masked, stride)
        /\ total = Len(src_pts.rows)

\* C9 (as claimed): src_pts and dst_pts given to get_weight_matrix are in one
\* coordinate frame, and the query points of every evaluated target are in
\* the frame of the src_pts used as kernel centres.
C9_SingleFrame ==
    /\ CallsOf("get_weight_matrix") # {} => src_pts.frame = dst_pts.frame
    /\ (CallsOf("get_weight_matrix") # {} /\ pts.rows # <<>>) => pts.frame = src_pts.frame

\* C11: every get_distance_matrix call of the loop gets as kernel centres the
\* point set that was the first argument of the one get_weight_matrix call,
\* with the same kernel function and the same effective radius; and that
\* point set is what was sampled from the source (first get_mesh_points
\* call) when invert is false, from the destination (second call) when true.
C11_EvaluationUsesFittingInputs ==
    \A i \in CallsOf("get_weight_matrix") :
        /\ calls[i].centres = calls[IF self.invert THEN 2 ELSE 1].points
        /\ \A j \in CallsOf("get_distance_matrix") :
              /\ calls[j].centres = calls[i].centres
              /\ calls[j].kernel = calls[i].kernel
              /\ calls[j].radius = calls[i].radius

\* C11 witness: with invert set and a destination sample that differs from
\* the source sample, two targets were evaluated with a radius above 0.
C11_Witness ==
    /\ self.invert
    /\ result = "FINISHED"
    /\ Cardinality(CallsOf("get_distance_matrix")) >= 2
    /\ calls[1].points # calls[2].points
    /\ \E j \in CallsOf("get_distance_matrix") :
          calls[j].radius > 0 /\ calls[j].centres = calls[2].points

\* C12: the src_pts and dst_pts passed to get_weight_matrix have the same
\* number of rows and row k of both comes from the same vertex; both consist
\* of the sampled rows followed by one reflected row per entry of the mirror
\* accumulator that the source sampling filled (none when it stayed empty or
\* mirroring is off), so the destination appends no reflection of its own.
C12_RowsCorrespond ==
    \A i \in CallsOf("get_weight_matrix") :
        LET s == calls[i].centres.rows
            d == calls[i].points.rows
            n == ceil(num_masked, stride)
            m == IF x_mirror.none THEN 0 ELSE Len(x_mirror.val)
        IN /\ Len(s) = Len(d)
           /\ Len(s) = n + m
           /\ \A k \in 1..Len(s) : s[k].v = d[k].v
           /\ \A k \in 1..m : s[n + k].v = s[x_mirror.val[k]].v
           /\ ~self.use_mirror_x => m = 0

\* C12 witness: with use_mirror_x the source sampling left the accumulator
\* empty (every sampled source x is 0) although the destination has a
\* sampled vertex off the mirror plane, and the solver was called.
C12_Witness ==
    /\ self.use_mirror_x
    /\ x_mirror.none
    /\ \E i \in CallsOf("get_weight_matrix") :
          /\ calls[i].points.rows # <<>>
          /\ \A k \in 1..Len(calls[i].centres.rows) : calls[i].centres.rows[k].x = 0
          /\ \E k \in 1..Len(calls[i].points.rows) : calls[i].points.rows[k].x # 0

\* C13: set_mesh_points and data.update are applied only to selected objects
\* of type MESH other than src_obj and dst_obj, and to each of them at most
\* once in the invocation.
C13_WritesOnlyTargets ==
    /\ \A i \in CallsOf("set_mesh_points") \cup CallsOf("update") :
          /\ \E k \in 1..Len(selected_objects) : selected_objects[k] = calls[i].obj
          /\ objects[calls[i].obj].type = "MESH"
          /\ calls[i].obj # src_obj
          /\ calls[i].obj # dst_obj
    /\ \A o \in Objects :
          /\ Cardinality(CallsOn("set_mesh_points", o)) <= 1
          /\ Cardinality(CallsOn("update", o)) <= 1

\* C13 witness: the source and the destination object are selected next to a
\* target, the invocation finished and wrote the target.
C13_Witness ==
    /\ result = "FINISHED"
    /\ \E i, j \in 1..Len(selected_objects) :
          selected_objects[i] = src_obj /\ selected_objects[j] = dst_obj /\ i # j
    /\ CallsOf("set_mesh_points") # {}

\* C13 second case: a selected non-mesh object was passed over and a later
\* target was written.
C13_NonMeshPassedOver ==
    /\ result = "FINISHED"
    /\ \E i, j \in 1..Len(selected_objects) :
          /\ i < j
          /\ objects[selected_objects[i]].type # "MESH"
          /\ CallsOn("set_mesh_points", selected_objects[j]) # {}

====
